---- MODULE Spec2Model ----
(***************************************************************************)
(* Model of update_to_dotnet8.py: the five rewriting passes of             *)
(* DotNet8Updater, update_file, generate_report and run.                   *)
(*                                                                         *)
(* A document's text is a sequence of lexical tokens; the text itself is   *)
(* the concatenation of the token strings.  The tokens are chosen so that  *)
(* every regular expression of the script matches token-aligned spans:     *)
(* a regex match, str.replace and re.sub on the text are then a match and  *)
(* a replacement on the token sequence.                                    *)
(***************************************************************************)
EXTENDS Integers, Sequences, FiniteSets, TLC

(***************************************************************************)
(* Bounds.                                                                 *)
(***************************************************************************)
MaxLen == 3
MaxRuns == 2
MaxFailures == 1

(***************************************************************************)
(* Tokens.                                                                 *)
(***************************************************************************)
CMD == "\ndotnet new web -n App"
NAME2 == "2"
FW_OLD == " --framework net6.0"
FW_NEW == " --framework net8.0"
NET6 == ".NET 6.0"
NET8 == ".NET 8.0"
TF6 == "<TargetFramework>net6.0</TargetFramework>"
TF8 == "<TargetFramework>net8.0</TargetFramework>"
CS9 == " C# 9"
CS12 == " C# 12"
HDR == "## Prerequisites\n"
BUL == "* Git\n"
SDK31 == "* .NET 3.1 SDK\n"
SDK8 == "- .NET 8.0 SDK installed\n"
NS == "\nnamespace A\n{"
NS_F == "\nnamespace A;"
NEWL == " List<int> x = new List<int>()"
NEWL_T == " List<int> x = new()"
ARR_O == "(new int[]{1"
ARR_C == "}"
ARR_LB == "([1"
ARR_RB == "]"
PARAMS == ", params"

\* <PackageReference Include="{package}" Version="{version}"
PackageReference(package, version) ==
    CASE package = "Polly" /\ version = "7.0.0" ->
             "<PackageReference Include=\"Polly\" Version=\"7.0.0\""
      [] package = "Polly" /\ version = "8.5.0" ->
             "<PackageReference Include=\"Polly\" Version=\"8.5.0\""

\* the version strings [\d.]+ that occur in the documents
Versions == {"7.0.0", "8.5.0"}

\* tokens the documents of the text specification are made of
InputTokens ==
    {CMD, NAME2, FW_OLD, NET6, TF6, CS9, HDR, BUL, SDK31, NS, NEWL,
     ARR_O, ARR_C, PARAMS, PackageReference("Polly", "7.0.0")}

\* tokens holding a line break: '.' of a regex stops there
NewlineTokens == {CMD, HDR, BUL, SDK31, SDK8, NS, NS_F}
\* tokens holding '--framework'
FrameworkTokens == {FW_OLD, FW_NEW}
\* tokens made of [\w-] characters: directly after a name they extend it
NameTokens == {NAME2}
\* tokens starting with a digit
DigitTokens == {NAME2}

(***************************************************************************)
(* Sequences of tokens.                                                    *)
(***************************************************************************)
RECURSIVE SeqsUpTo(_, _)
SeqsUpTo(S, n) ==
    IF n = 0 THEN {<<>>}
    ELSE LET shorter == SeqsUpTo(S, n - 1)
         IN  shorter \cup {Append(s, x) : s \in {t \in shorter : Len(t) = n - 1}, x \in S}

OccursAt(s, old, i) ==
    /\ i + Len(old) - 1 <= Len(s)
    /\ \A k \in 1..Len(old) : s[i + k - 1] = old[k]

Contains(s, tok) == \E i \in DOMAIN s : s[i] = tok

Count(s, tok) == Cardinality({i \in DOMAIN s : s[i] = tok})

RECURSIVE ReplaceFrom(_, _, _, _)
ReplaceFrom(s, old, new, i) ==
    IF i > Len(s) THEN <<>>
    ELSE IF OccursAt(s, old, i)
         THEN new \o ReplaceFrom(s, old, new, i + Len(old))
         ELSE <<s[i]>> \o ReplaceFrom(s, old, new, i + 1)

RECURSIVE ReplaceFirstFrom(_, _, _, _)
ReplaceFirstFrom(s, old, new, i) ==
    IF i > Len(s) THEN <<>>
    ELSE IF OccursAt(s, old, i)
         THEN new \o SubSeq(s, i + Len(old), Len(s))
         ELSE <<s[i]>> \o ReplaceFirstFrom(s, old, new, i + 1)

\* a replacement confined to the first occurrence
str_replace_first_only(s, old, new) == ReplaceFirstFrom(s, old, new, 1)

\* str.replace(old, new): every non-overlapping occurrence, left to right
str_replace(s, old, new) == ReplaceFrom(s, old, new, 1)

\* for match in matches: content = content.replace(old, new)
RECURSIVE ReplaceEach(_, _, _)
ReplaceEach(content, reps, k) ==
    IF k > Len(reps) THEN content
    ELSE ReplaceEach(str_replace(content, reps[k].old, reps[k].new), reps, k + 1)

(***************************************************************************)
(* Pass 1: update_dotnet_new_commands.                                     *)
(***************************************************************************)
\* [\w-]+ is greedy: the name runs over the name tokens that follow
RECURSIVE NameEnd(_, _)
NameEnd(s, j) ==
    IF j < Len(s) /\ s[j + 1] \in NameTokens THEN NameEnd(s, j + 1) ELSE j

\* .*--framework : a framework flag later on the same line
RECURSIVE FrameworkAhead(_, _)
FrameworkAhead(s, j) ==
    IF j >= Len(s) THEN FALSE
    ELSE IF s[j + 1] \in FrameworkTokens THEN TRUE
    ELSE IF s[j + 1] \in NewlineTokens THEN FALSE
    ELSE FrameworkAhead(s, j + 1)

\* re.finditer(r'dotnet new (\w+)(\s+-n\s+[\w-]+)(?!.*--framework)', content)
RECURSIVE CommandMatches(_, _)
CommandMatches(s, i) ==
    IF i > Len(s) THEN <<>>
    ELSE IF s[i] = CMD /\ ~FrameworkAhead(s, NameEnd(s, i))
         THEN <<SubSeq(s, i, NameEnd(s, i))>> \o CommandMatches(s, NameEnd(s, i) + 1)
         ELSE CommandMatches(s, i + 1)

update_dotnet_new_commands(content) ==
    LET matches == CommandMatches(content, 1)
        reps == [k \in DOMAIN matches |->
                    [old |-> matches[k], new |-> Append(matches[k], FW_NEW)]]
    IN  [content |-> ReplaceEach(content, reps, 1),
         changes |-> [k \in DOMAIN matches |->
                         <<"Updated dotnet new command">> \o matches[k]]]

(***************************************************************************)
(* Pass 2: update_package_versions.                                        *)
(***************************************************************************)
PACKAGE_VERSIONS == <<[package |-> "Polly", version |-> "8.5.0"]>>

\* re.finditer(rf'<PackageReference Include="{package}"\s+Version="[\d.]+"', content)
RECURSIVE PackageMatches(_, _, _)
PackageMatches(s, package, i) ==
    IF i > Len(s) THEN <<>>
    ELSE IF \E v \in Versions : s[i] = PackageReference(package, v)
         THEN <<s[i]>> \o PackageMatches(s, package, i + 1)
         ELSE PackageMatches(s, package, i + 1)

RECURSIVE UpdatePackages(_, _, _)
UpdatePackages(content, changes, p) ==
    IF p > Len(PACKAGE_VERSIONS) THEN [content |-> content, changes |-> changes]
    ELSE LET package == PACKAGE_VERSIONS[p].package
             version == PACKAGE_VERSIONS[p].version
             matches == PackageMatches(content, package, 1)
             reps == [k \in DOMAIN matches |->
                         [old |-> <<matches[k]>>,
                          new |-> <<PackageReference(package, version)>>]]
         IN  UpdatePackages(
                 ReplaceEach(content, reps, 1),
                 changes \o [k \in DOMAIN matches |-> <<"Updated version", package, version>>],
                 p + 1)

update_package_versions(content) == UpdatePackages(content, <<>>, 1)

(***************************************************************************)
(* Pass 3: update_dotnet_versions.                                         *)
(***************************************************************************)
\* re.finditer over single-token spans: the positions where tok matches;
\* a negative lookahead refuses the match when a token of `refused` follows
RECURSIVE TokenMatches(_, _, _, _)
TokenMatches(s, tok, refused, i) ==
    IF i > Len(s) THEN <<>>
    ELSE IF s[i] = tok /\ ~(i < Len(s) /\ s[i + 1] \in refused)
         THEN <<i>> \o TokenMatches(s, tok, refused, i + 1)
         ELSE TokenMatches(s, tok, refused, i + 1)

ReplaceToken(content, tok, refused, new, what) ==
    LET matches == TokenMatches(content, tok, refused, 1)
        reps == [k \in DOMAIN matches |-> [old |-> <<tok>>, new |-> <<new>>]]
    IN  [content |-> ReplaceEach(content, reps, 1),
         changes |-> [k \in DOMAIN matches |-> <<what, tok>>]]

update_dotnet_versions(content) ==
    LET dotnet == ReplaceToken(content, NET6, {}, NET8, "Updated to .NET 8.0")
        framework == ReplaceToken(dotnet.content, TF6, {}, TF8,
                                  "Updated target framework to net8.0")
        \* C#\s+(9|10|11)(?!\d)
        csharp == ReplaceToken(framework.content, CS9, DigitTokens, CS12, "Updated to C# 12")
    IN  [content |-> csharp.content,
         changes |-> dotnet.changes \o framework.changes \o csharp.changes]

(***************************************************************************)
(* Pass 4: add_dotnet8_prerequisite.                                       *)
(***************************************************************************)
\* a line '[-*]\s+.*\n'
BulletTokens == {BUL, SDK31, SDK8}
\* a line '[-*]\s*\.NET \d+\.\d+ SDK.*\n'
SdkBulletTokens == {SDK31, SDK8}

FirstIndex(s, tok) == CHOOSE i \in DOMAIN s : s[i] = tok /\ \A j \in 1..(i - 1) : s[j] # tok

RECURSIVE ItemsEnd(_, _)
ItemsEnd(s, j) ==
    IF j < Len(s) /\ s[j + 1] \in BulletTokens THEN ItemsEnd(s, j + 1) ELSE j

add_dotnet8_prerequisite(content) ==
    IF Contains(content, HDR) /\ ~Contains(content, SDK8)
    THEN LET h == FirstIndex(content, HDR)
             e == ItemsEnd(content, h)
             items == SubSeq(content, h + 1, e)
             kept == SelectSeq(items, LAMBDA t : t \notin SdkBulletTokens)
         IN  [content |-> str_replace(content, SubSeq(content, h, e), <<HDR, SDK8>> \o kept),
              changes |-> << <<"Added .NET 8.0 SDK prerequisite">> >>]
    ELSE [content |-> content, changes |-> <<>>]

(***************************************************************************)
(* Pass 5: update_csharp_syntax.                                           *)
(***************************************************************************)
CSHARP_SYNTAX_UPDATES ==
    <<[pattern |-> NS, replacement |-> NS_F],
      [pattern |-> NEWL, replacement |-> NEWL_T]>>

\* re.sub(pattern, replacement, content, count=1)
re_sub_once(content, pattern, replacement) ==
    ReplaceFirstFrom(content, <<pattern>>, <<replacement>>, 1)

RECURSIVE SubTimes(_, _, _, _)
SubTimes(content, pattern, replacement, n) ==
    IF n = 0 THEN content
    ELSE SubTimes(re_sub_once(content, pattern, replacement), pattern, replacement, n - 1)

\* one substitution for the pattern, however many matches it has
ApplySyntaxRuleOnce(content, rule) ==
    LET n == Count(content, rule.pattern)
    IN  [content |-> re_sub_once(content, rule.pattern, rule.replacement),
         changes |-> IF n = 0 THEN <<>> ELSE << <<"Updated to C# 12 syntax", rule.pattern>> >>]

\* for match in re.finditer(pattern, content): content = re.sub(..., count=1)
ApplySyntaxRule(content, rule) ==
    LET n == Count(content, rule.pattern)
    IN  [content |-> SubTimes(content, rule.pattern, rule.replacement, n),
         changes |-> [k \in 1..n |-> <<"Updated to C# 12 syntax", rule.pattern>>]]

RECURSIVE ApplySyntaxRules(_, _, _)
ApplySyntaxRules(content, changes, r) ==
    IF r > Len(CSHARP_SYNTAX_UPDATES) THEN [content |-> content, changes |-> changes]
    ELSE LET res == ApplySyntaxRule(content, CSHARP_SYNTAX_UPDATES[r])
         IN  ApplySyntaxRules(res.content, changes \o res.changes, r + 1)

\* tokens holding one of 'new[]', 'params', 'var'
KeywordTokens == {PARAMS}

\* [^}]+ then '}' : the first closing brace after position i, 0 when there is none
RECURSIVE CloseAfter(_, _)
CloseAfter(s, i) ==
    IF i >= Len(s) THEN 0
    ELSE IF s[i + 1] = ARR_C THEN i + 1
    ELSE CloseAfter(s, i + 1)

\* re.finditer(r'new\s+(\w+)\[\]\s*{\s*([^}]+)\s*}', content)
RECURSIVE ArrayMatches(_, _)
ArrayMatches(s, i) ==
    IF i > Len(s) THEN <<>>
    ELSE IF s[i] = ARR_O /\ CloseAfter(s, i) # 0
         THEN <<SubSeq(s, i, CloseAfter(s, i))>> \o ArrayMatches(s, CloseAfter(s, i) + 1)
         ELSE ArrayMatches(s, i + 1)

update_csharp_syntax(content) ==
    LET syntax == ApplySyntaxRules(content, <<>>, 1)
        matches == SelectSeq(ArrayMatches(syntax.content, 1),
                             LAMBDA m : \A k \in DOMAIN m : m[k] \notin KeywordTokens)
        reps == [k \in DOMAIN matches |->
                    [old |-> matches[k],
                     new |-> <<ARR_LB>> \o SubSeq(matches[k], 2, Len(matches[k]) - 1)
                                 \o <<ARR_RB>>]]
    IN  [content |-> ReplaceEach(syntax.content, reps, 1),
         changes |-> syntax.changes \o
                     [k \in DOMAIN matches |-> <<"Updated to collection expression syntax">>]]

(***************************************************************************)
(* The passes in the order update_file applies them.                       *)
(***************************************************************************)
ApplyPass(n, content) ==
    CASE n = 1 -> update_dotnet_new_commands(content)
      [] n = 2 -> update_package_versions(content)
      [] n = 3 -> update_dotnet_versions(content)
      [] n = 4 -> add_dotnet8_prerequisite(content)
      [] n = 5 -> update_csharp_syntax(content)

RECURSIVE ApplyPasses(_, _, _)
ApplyPasses(content, changes, n) ==
    IF n > 5 THEN [content |-> content, changes |-> changes]
    ELSE LET res == ApplyPass(n, content)
         IN  ApplyPasses(res.content, changes \o res.changes, n + 1)

\* update_file, lines 233-250: content and all_changes after the five passes
Transform(content) == ApplyPasses(content, <<>>, 1)

(***************************************************************************)
(* The corpus: the markdown files under the root path.                     *)
(***************************************************************************)
EX_README == "M1/Exercises/README.md"
TOP_README == "README.md"
RES_GUIDE == "M1/Resources/guide.md"

Paths == {EX_README, TOP_README, RES_GUIDE}

\* rglob("*/Exercises/*.md")
InExercises(p) == p = EX_README
\* rglob("README.md")
IsReadme(p) == p \in {EX_README, TOP_README}
\* rglob("*/Resources/*.md")
InResources(p) == p = RES_GUIDE

NoFile == <<"<no file>">>
\* a backup left behind by an earlier run
StaleBackup == <<"<backup of an earlier run>">>
\* what a copy or a write that fails half-way leaves behind
Truncated == <<>>

\* the documents the files of the corpus hold
Corpus ==
    {<<BUL>>,
     <<PackageReference("Polly", "8.5.0")>>,
     <<NET6>>,
     <<NEWL, NEWL>>,
     <<ARR_O, ARR_O, ARR_C, ARR_C>>}

\* the orders in which a directory walk can yield the files of S
Orderings(S) ==
    {s \in [1..Cardinality(S) -> S] : \A i, j \in DOMAIN s : i # j => s[i] # s[j]}

\* find_files_to_update: the three rglob results, one after the other
find_files_to_update(fsys) ==
    LET present == {p \in Paths : fsys[p] # NoFile}
    IN  {e \o r \o s :
            e \in Orderings({p \in present : InExercises(p)}),
            r \in Orderings({p \in present : IsReadme(p)}),
            s \in Orderings({p \in present : InResources(p)})}

(***************************************************************************)
(* update_file and run.                                                    *)
(***************************************************************************)
\* the decision of line 253 taken on the change list instead of the text
IsChangedByChangeList(content, original_content, all_changes) == all_changes # <<>>

\* if content != original_content
IsChanged(content, original_content, all_changes) == content # original_content

\* the backup and the write done in preview mode too
PersistAlways(dry) == "backup"

\* if not self.dry_run: backup, then write; else only the log line
Persist(dry) == IF dry THEN "log" ELSE "backup"

\* a copy that leaves the backup as it was
copy2_nothing(fsys, backups, p) == backups

\* shutil.copy2(file_path, backup_path)
copy2(fsys, backups, p) == [backups EXCEPT ![p] = fsys[p]]

\* an error that ends the run
AbortOnError(i) == [pc |-> "crashed", idx |-> i]

\* except Exception: print, return False; run's loop goes on with the next file
OnError(i) == [pc |-> "loop", idx |-> i + 1]

\* self.changes_log[:100]
ReportCap == 100

Min(a, b) == IF a < b THEN a ELSE b

NoReport == [generated |-> FALSE]

\* generate_report: the summary block and the capped change log
generate_report(total, updated, dry, log) ==
    [generated |-> TRUE,
     total_files |-> total,
     files_updated |-> updated,
     dry_run |-> dry,
     changes |-> SubSeq(log, 1, Min(ReportCap, Len(log))),
     and_more |-> Len(log) > ReportCap]

\* f"{file_path}: {change}" for each change of the file
LogEntries(p, all_changes) ==
    [k \in DOMAIN all_changes |-> [path |-> p, change |-> all_changes[k]]]

\* the state of a run: the files and what the updater has counted and logged
NewRun(fsys) == [fs |-> fsys, total_files |-> 0, files_updated |-> 0, changes_log |-> <<>>]

\* update_file on one path when nothing raises, in preview mode or not
UpdateFileOf(st, p, dry) ==
    LET original_content == st.fs[p]
        res == Transform(original_content)
    IN  IF IsChanged(res.content, original_content, res.changes)
        THEN [fs |-> IF dry THEN st.fs ELSE [st.fs EXCEPT ![p] = res.content],
              total_files |-> st.total_files + 1,
              files_updated |-> st.files_updated + 1,
              changes_log |-> st.changes_log \o LogEntries(p, res.changes)]
        ELSE [st EXCEPT !.total_files = st.total_files + 1]

VARIABLES
    txt_orig,       \* update_file: original_content of the document being rewritten
    txt_in,         \* content handed to the last pass applied
    txt_out,        \* content returned by the last pass applied
    txt_changes,    \* changes returned by the last pass applied
    pass,           \* number of passes applied (0..5)
    runs,           \* how many times the script has been started on the document
    fs,             \* the markdown files on disk: path -> text, NoFile when absent
    bak,            \* the backup files: path -> text of path + '.bak'
    report_file,    \* whether run wrote dotnet8_update_report_<time>.txt
    files,          \* run: the list find_files_to_update returned
    idx,            \* run: position of the loop in files
    dry_run,        \* self.dry_run
    total_files,    \* self.total_files
    files_updated,  \* self.files_updated
    changes_log,    \* self.changes_log
    pc,             \* where run / update_file stands
    content,        \* update_file: content after the five passes
    all_changes,    \* update_file: all_changes
    report,         \* run: the text generate_report returned
    fs0,            \* fs when the run started
    bak0,           \* bak when the run started
    outcomes,       \* how each update_file call so far ended
    failures,       \* exceptions raised so far
    twin            \* the same list run in the other mode, without failures

tvars == <<txt_orig, txt_in, txt_out, txt_changes, pass, runs>>
rvars == <<fs, bak, report_file, files, idx, dry_run, total_files, files_updated,
           changes_log, pc, content, all_changes, report,
           fs0, bak0, outcomes, failures, twin>>
vars == <<tvars, rvars>>

\* no document is being rewritten
TextIdle ==
    /\ txt_orig = <<>>
    /\ txt_in = <<>>
    /\ txt_out = <<>>
    /\ txt_changes = <<>>
    /\ pass = 0
    /\ runs = 0

\* DotNet8Updater.__init__ over an empty corpus
RunIdle ==
    /\ fs = [p \in Paths |-> NoFile]
    /\ bak = [p \in Paths |-> NoFile]
    /\ fs0 = fs
    /\ bak0 = bak
    /\ report_file = FALSE
    /\ files = <<>>
    /\ idx = 1
    /\ dry_run = FALSE
    /\ total_files = 0
    /\ files_updated = 0
    /\ changes_log = <<>>
    /\ pc = "idle"
    /\ content = <<>>
    /\ all_changes = <<>>
    /\ report = NoReport
    /\ outcomes = <<>>
    /\ failures = 0
    /\ twin = NewRun(fs)

(***************************************************************************)
(* Text specification: one document threaded through the five passes,      *)
(* MaxRuns times in a row.                                                 *)
(***************************************************************************)
TextInit ==
    /\ txt_orig \in SeqsUpTo(InputTokens, MaxLen)
    /\ txt_in = txt_orig
    /\ txt_out = txt_orig
    /\ txt_changes = <<>>
    /\ pass = 0
    /\ runs = 1
    /\ RunIdle

\* update_file: the next pass of the pipeline
NextPass ==
    /\ pass < 5
    /\ runs >= 1
    /\ pass' = pass + 1
    /\ txt_in' = txt_out
    /\ txt_out' = ApplyPass(pass + 1, txt_out).content
    /\ txt_changes' = ApplyPass(pass + 1, txt_out).changes
    /\ UNCHANGED <<txt_orig, runs>>
    /\ UNCHANGED rvars

\* the script is run again over its own output
RunAgain ==
    /\ pass = 5
    /\ runs < MaxRuns
    /\ runs' = runs + 1
    /\ pass' = 0
    /\ txt_in' = txt_out
    /\ txt_changes' = <<>>
    /\ UNCHANGED <<txt_orig, txt_out>>
    /\ UNCHANGED rvars

TextNext == NextPass \/ RunAgain

SpecText == TextInit /\ [][TextNext]_vars

(***************************************************************************)
(* Run specification: DotNet8Updater(root, dry_run).run() over a corpus.   *)
(***************************************************************************)
Init ==
    /\ TextIdle
    /\ fs \in [Paths -> Corpus \cup {NoFile}]
    /\ \E stale \in {NoFile, StaleBackup} :
           bak = [p \in Paths |-> IF fs[p] = NoFile THEN NoFile ELSE stale]
    /\ fs0 = fs
    /\ bak0 = bak
    /\ report_file = FALSE
    /\ files \in find_files_to_update(fs)
    /\ idx = 1
    /\ dry_run \in BOOLEAN
    /\ total_files = 0
    /\ files_updated = 0
    /\ changes_log = <<>>
    /\ pc = "loop"
    /\ content = <<>>
    /\ all_changes = <<>>
    /\ report = NoReport
    /\ outcomes = <<>>
    /\ failures = 0
    /\ twin = NewRun(fs)

Frame == UNCHANGED <<tvars, files, dry_run, fs0, bak0>>

\* the same list run in the other mode, without failures, one entry behind or level
TwinStep == twin' = UpdateFileOf(twin, files[idx], ~dry_run)

\* update_file, lines 225-253 and 275-277: count, read, the five passes, compare
ProcessFile ==
    /\ pc = "loop"
    /\ idx <= Len(files)
    /\ total_files' = total_files + 1
    /\ LET original_content == fs[files[idx]]
           res == Transform(original_content)
       IN  IF IsChanged(res.content, original_content, res.changes)
           THEN /\ content' = res.content
                /\ all_changes' = res.changes
                /\ pc' = Persist(dry_run)
                /\ UNCHANGED <<idx, outcomes, twin>>
           ELSE /\ idx' = idx + 1
                /\ outcomes' = Append(outcomes, "unchanged")
                /\ TwinStep
                /\ UNCHANGED <<content, all_changes, pc>>
    /\ UNCHANGED <<fs, bak, report_file, files_updated, changes_log, report, failures>>
    /\ Frame

\* update_file, lines 225-231 and 279-281: the file cannot be read or decoded
ReadFails ==
    /\ pc = "loop"
    /\ idx <= Len(files)
    /\ failures < MaxFailures
    /\ failures' = failures + 1
    /\ total_files' = total_files + 1
    /\ pc' = OnError(idx).pc
    /\ idx' = OnError(idx).idx
    /\ outcomes' = Append(outcomes, "read failed")
    /\ TwinStep
    /\ UNCHANGED <<fs, bak, report_file, files_updated, changes_log, content,
                   all_changes, report>>
    /\ Frame

\* update_file, lines 256-257
Backup ==
    /\ pc = "backup"
    /\ bak' = copy2(fs, bak, files[idx])
    /\ pc' = "write"
    /\ UNCHANGED <<fs, report_file, idx, total_files, files_updated, changes_log,
                   content, all_changes, report, outcomes, failures>>
    /\ UNCHANGED twin
    /\ Frame

\* update_file, lines 257 and 279-281: the copy raises, before or while it writes
BackupFails ==
    /\ pc = "backup"
    /\ failures < MaxFailures
    /\ failures' = failures + 1
    /\ \E left \in {bak[files[idx]], Truncated} :
           bak' = [bak EXCEPT ![files[idx]] = left]
    /\ pc' = OnError(idx).pc
    /\ idx' = OnError(idx).idx
    /\ outcomes' = Append(outcomes, "backup failed")
    /\ TwinStep
    /\ content' = <<>>
    /\ all_changes' = <<>>
    /\ UNCHANGED <<fs, report_file, total_files, files_updated, changes_log, report>>
    /\ Frame

\* update_file, lines 260-261
Write ==
    /\ pc = "write"
    /\ fs' = [fs EXCEPT ![files[idx]] = content]
    /\ pc' = "log"
    /\ UNCHANGED <<bak, report_file, idx, total_files, files_updated, changes_log,
                   content, all_changes, report, outcomes, failures>>
    /\ UNCHANGED twin
    /\ Frame

\* update_file, lines 260-261 and 279-281: open raises, or write after the truncation
WriteFails ==
    /\ pc = "write"
    /\ failures < MaxFailures
    /\ failures' = failures + 1
    /\ \E left \in {fs[files[idx]], Truncated} :
           fs' = [fs EXCEPT ![files[idx]] = left]
    /\ pc' = OnError(idx).pc
    /\ idx' = OnError(idx).idx
    /\ outcomes' = Append(outcomes, "write failed")
    /\ TwinStep
    /\ content' = <<>>
    /\ all_changes' = <<>>
    /\ UNCHANGED <<bak, report_file, total_files, files_updated, changes_log, report>>
    /\ Frame

\* update_file, lines 267-274
LogChanges ==
    /\ pc = "log"
    /\ files_updated' = files_updated + 1
    /\ changes_log' = changes_log \o LogEntries(files[idx], all_changes)
    /\ idx' = idx + 1
    /\ pc' = "loop"
    /\ outcomes' = Append(outcomes, "updated")
    /\ TwinStep
    /\ content' = <<>>
    /\ all_changes' = <<>>
    /\ UNCHANGED <<fs, bak, report_file, total_files, report, failures>>
    /\ Frame

\* if not self.dry_run: write the report file
ReportStep(dry) == IF dry THEN "done" ELSE "report"

\* run, lines 322-326: the loop is over, the report is generated
GenerateReport ==
    /\ pc = "loop"
    /\ idx > Len(files)
    /\ report' = generate_report(total_files, files_updated, dry_run, changes_log)
    /\ pc' = ReportStep(dry_run)
    /\ UNCHANGED <<fs, bak, report_file, idx, total_files, files_updated, changes_log,
                   content, all_changes, outcomes, failures>>
    /\ UNCHANGED twin
    /\ Frame

\* run, lines 327-333: the report file is written, the summary printed
WriteReport ==
    /\ pc = "report"
    /\ report_file' = TRUE
    /\ pc' = "done"
    /\ UNCHANGED <<fs, bak, idx, total_files, files_updated, changes_log,
                   content, all_changes, report, outcomes, failures>>
    /\ UNCHANGED twin
    /\ Frame

\* run, lines 327-328: writing the report file raises, outside any handler
WriteReportFails ==
    /\ pc = "report"
    /\ failures < MaxFailures
    /\ failures' = failures + 1
    /\ pc' = "crashed"
    /\ UNCHANGED <<fs, bak, report_file, idx, total_files, files_updated, changes_log,
                   content, all_changes, report, outcomes>>
    /\ UNCHANGED twin
    /\ Frame

Next ==
    \/ ProcessFile
    \/ ReadFails
    \/ Backup
    \/ BackupFails
    \/ Write
    \/ WriteFails
    \/ LogChanges
    \/ GenerateReport
    \/ WriteReport
    \/ WriteReportFails

Spec == Init /\ [][Next]_vars

\* run has returned (line 338) or an exception has left it (lines 327-328)
Terminated == pc \in {"done", "crashed"}

\* run() is one synchronous call: it goes on until it returns or raises.  This
\* is WF_vars(Next) with ENABLED <<Next>>_vars written as the state predicate
\* it equals in every reachable state, ~Terminated.
LiveSpec == Init /\ [][Next]_vars /\ ([]<>Terminated \/ []<><<Next>>_vars)

(***************************************************************************)
(* Properties.                                                             *)
(***************************************************************************)
EntriesOf(p) == {i \in DOMAIN outcomes : files[i] = p}

LogOf(p) == SelectSeq(changes_log, LAMBDA e : e.path = p)

Failed == {"read failed", "backup failed", "write failed"}

\* C1: in preview mode a run mutates nothing on disk: no document is
\* overwritten, no backup is created or altered and no report file is
\* written, whether or not rules matched.
C1_PreviewMutatesNothing ==
    dry_run => (fs = fs0 /\ bak = bak0 /\ ~report_file)

\* a finished preview run that found documents to update
C1_Witness ==
    /\ dry_run
    /\ pc = "done"
    /\ files_updated > 0
    /\ \E i \in DOMAIN outcomes : outcomes[i] = "unchanged"

\* C2: at the end of a non-preview run every document that changed has a
\* backup equal to its content at the start of the run, duplicates in the
\* discovered list included (stated for runs without I/O failures).
C2_BackupHoldsStartContent ==
    (pc = "done" /\ ~dry_run /\ failures = 0)
        => \A p \in Paths : fs[p] # fs0[p] => bak[p] = fs0[p]

\* C3: a document is overwritten only when its backup already holds the
\* content being overwritten, and a failed backup ends the processing of the
\* file with the document, the update counter and the change log untouched.
C3_BackupBeforeWrite ==
    [][/\ \A p \in Paths : fs'[p] # fs[p] => bak[p] = fs[p]
       /\ (pc = "backup" /\ pc' # "write")
              => /\ fs' = fs
                 /\ files_updated' = files_updated
                 /\ changes_log' = changes_log
                 /\ pc' = "loop"
                 /\ idx' = idx + 1]_vars

\* a finished run in which a backup failed and that document is as it was
C3_Witness ==
    /\ pc = "done"
    /\ \E i \in DOMAIN outcomes :
           /\ outcomes[i] = "backup failed"
           /\ fs[files[i]] = fs0[files[i]]
           /\ LogOf(files[i]) = <<>>
    /\ \E i \in DOMAIN outcomes : outcomes[i] = "updated"

\* C4: whichever documents fail, every entry of the discovered list is
\* processed and the report with the summary is generated.
C4_RunCompletes ==
    <>(report.generated /\ Len(outcomes) = Len(files))

\* a failed document followed by one that was processed, summary generated
C4_Witness ==
    /\ report.generated
    /\ \E i \in DOMAIN outcomes :
           /\ outcomes[i] \in Failed
           /\ i < Len(outcomes)
           /\ outcomes[i + 1] \in {"updated", "unchanged"}

\* C5: the summary counts only the documents processed without failure, in
\* 'total files processed' as in 'files updated'.
C5_CountsOnlySuccesses ==
    pc = "done"
        => /\ total_files = Cardinality({i \in DOMAIN outcomes : outcomes[i] \notin Failed})
           /\ files_updated = Cardinality({i \in DOMAIN outcomes : outcomes[i] = "updated"})

\* C6: a path discovered more than once is one document: counted once in
\* the total, at most once as updated, its changes logged once (stated for
\* runs without I/O failures).
C6_DuplicatesAreOneDocument ==
    (pc = "done" /\ failures = 0)
        => /\ total_files = Cardinality({files[i] : i \in DOMAIN files})
           /\ \A p \in Paths :
                  /\ Cardinality({i \in EntriesOf(p) : outcomes[i] = "updated"}) <= 1
                  /\ Len(LogOf(p)) <= Len(Transform(fs0[p]).changes)

\* C7: a document whose text after the five passes equals its original text
\* is not overwritten, gets no backup, no change-log entry and is never
\* counted as updated, in either mode.
C7_UnchangedDocumentUntouched ==
    /\ files_updated = Cardinality({i \in DOMAIN outcomes : outcomes[i] = "updated"})
    /\ \A p \in Paths :
           (fs0[p] # NoFile /\ Transform(fs0[p]).content = fs0[p])
               => /\ fs[p] = fs0[p]
                  /\ bak[p] = bak0[p]
                  /\ LogOf(p) = <<>>
                  /\ \A i \in EntriesOf(p) : outcomes[i] \in {"unchanged", "read failed"}

\* a document on which a rule matched without changing the text
C7_Witness ==
    /\ pc = "done"
    /\ files_updated = 0
    /\ \E i \in DOMAIN outcomes :
           /\ outcomes[i] = "unchanged"
           /\ Transform(fs0[files[i]]).changes # <<>>

SyntaxChanges(rule) ==
    SelectSeq(txt_changes, LAMBDA c : c = <<"Updated to C# 12 syntax", rule.pattern>>)

CommandMatchesBare(s) ==
    \E i \in DOMAIN s :
        /\ s[i] = CMD
        /\ ~(i < Len(s) /\ s[i + 1] \in NameTokens)
        /\ ~FrameworkAhead(s, i)

C10_PreviewReportsRealRun ==
    (pc = "done" /\ failures = 0)
        => /\ total_files = twin.total_files
           /\ files_updated = twin.files_updated
           /\ changes_log = twin.changes_log

====
